---- MODULE Spec2Model ----
(***************************************************************************)
(* A model of the 2P_reader scripts: reader.py (stack loader, contrast     *)
(* normaliser, projection summariser, playback driver, entry point) and    *)
(* viewer.py (scale-aware viewer bridge, entry point).                     *)
(*                                                                         *)
(* Every component has its own variables and its own specification; the    *)
(* variables of the components a specification does not run stay at their  *)
(* idle values.                                                            *)
(*                                                                         *)
(* Arithmetic.  Pixel values are integers.  A percentile of n pixels with  *)
(* linear interpolation is a multiple of 1/100, so percentiles are kept    *)
(* as integers scaled by 100, and a stretched pixel is kept as an exact    *)
(* fraction <<num, den>>.  Floating-point rounding is not modelled.        *)
(***************************************************************************)
EXTENDS Integers, Sequences, FiniteSets, TLC

VARIABLES
    \* ---- percentile_contrast (reader.py 28-37)
    img2d,        \* the 2D input array: a sequence of rows of pixel values
    cpc,          \* "ready" | "returned"
    pct,          \* the (low, high) percentile pair of the call
    img_disp,     \* the returned display image (rows of fractions), or <<>>
    divided,      \* the call evaluated the division of line 36
    divByZero,    \* that division had a zero denominator
    \* ---- save_as_tiff (reader.py 51-65)
    arr,          \* the element to save: [kind, val]
    tpc,          \* "ready" | "written" | "read"
    tfile,        \* the bytes of the sample in the TIFF file, or <<>>
    tread,        \* the sample read back: <<v>>, or <<>>
    \* ---- summarize_movie (reader.py 68-113)
    n_frames,     \* data.shape[0]
    spc,          \* the statement summarize_movie is at
    dirState,     \* save_dir on disk: "absent" | "file" | "dir"
    files,        \* the directory's files: name -> run that wrote it
    runs,         \* completed runs of summarize_movie
    listing1,     \* the directory listing when the first run returned ({} before)
    window,       \* the title of the open figure window, or <<>>
    serr,         \* the exception summarize_movie raised, or None
    \* ---- play_movie (reader.py 117-131)
    p_n,          \* data.shape[0]
    p_start,      \* the start argument
    p_stopArg,    \* the stop argument: <<>> (not supplied) or <<index>>
    p_stop,       \* stop after line 118
    ppc,          \* "ready" | "playing" | "returned" | "error"
    p_next,       \* the index the frame iterator yields next
    im,           \* the frame whose normalised image is displayed: <<i>>, or <<>>
    ptitle,       \* the axes title <<i + 1, N>>, or <<>>
    shown,        \* the frames the redraw steps have displayed, in order
    passes,       \* times the frame iterator was exhausted (saturating)
    perr,         \* the exception play_movie raised, or None
    \* ---- load_tiff_stack and the reader entry point (reader.py 13-25, 136-164)
    r_file,       \* the input file: "missing" | "bad_header" | "bad_data" | "ok"
    r_ndim,       \* data.ndim of the decoded array
    r_axis0,      \* data.shape[0] of the decoded array
    r_desc,       \* what the description holds: "none" | "frames" | "slices" | "other"
    r_metaFrames, \* "frames" is a tag name of the first page
    rpc,          \* the statement the reader script is at
    r_handle,     \* the file handle: "none" | "open" | "closed"
    r_locals,     \* the locals of load_tiff_stack assigned so far
    r_ret,        \* what load_tiff_stack returned: <<>> or <<"data","meta","desc">>
    r_out,        \* the messages printed, in order
    r_err,        \* the unhandled exception, or None
    r_disk0,      \* the save directory as it was when the script started
    \* ---- load_tiff and the viewer entry point (viewer.py 7-60)
    v_file,       \* the input file: "missing" | "bad_header" | "bad_data" | "ok"
    v_tags,       \* the resolution tags of the first page: name -> <<num, den>>
    vpc,          \* the statement the viewer script is at
    v_where,      \* the code that is running: "load_tiff" | "main"
    v_handle,     \* the file handle: "none" | "open" | "closed"
    v_res,        \* the locals xres, yres read so far: name -> <<num, den>>
    v_scale,      \* the scale tuple (fractions <<num, den>>), or <<>>
    viewers,      \* napari viewers created
    layers,       \* the images handed to a viewer: <<name, scale>>
    v_data,       \* the variable data of the entry point
    v_out,        \* the messages printed, in order
    v_err,        \* the unhandled exception, or None
    v_errStep     \* the kind of step that raised it

None == "None"

\* ------------------------------------------------------------------ bounds
MaxRows == 2
MaxCols == 2
MaxPix == 2

\* ------------------------------------------------------- helper arithmetic
Min(a, b) == IF a <= b THEN a ELSE b

RECURSIVE Flatten(_)
\* np.percentile works on the flattened array
Flatten(rows) ==
    IF rows = <<>> THEN <<>> ELSE Head(rows) \o Flatten(Tail(rows))

\* 100 * np.percentile(a, q), default method 'linear': the sorted values at
\* the virtual index q/100 * (n-1), interpolated between its neighbours.
Percentile100(flat, q) ==
    LET s    == SortSeq(flat, <)
        n    == Len(s)
        pos  == q * (n - 1)
        lo   == pos \div 100
        frac == pos % 100
        hi   == Min(lo + 1, n - 1)
    IN  100 * s[lo + 1] + frac * (s[hi + 1] - s[lo + 1])

\* np.clip(x, 0, 1) of one element.  <<0, 0>> is NaN (0/0), which clip keeps;
\* <<n, 0>> with n # 0 is +-inf, which clip sends to the nearer end.
Clip01(x) ==
    IF x[2] = 0 THEN (IF x[1] = 0 THEN x ELSE IF x[1] > 0 THEN <<1, 1>> ELSE <<0, 1>>)
    ELSE IF x[1] <= 0 THEN <<0, 1>>
    ELSE IF x[1] >= x[2] THEN <<1, 1>>
    ELSE x

\* (img2d.astype(float32) - p_low) / (p_high - p_low), elementwise
Stretch(img, p_low, p_high) ==
    [r \in DOMAIN img |->
        [c \in DOMAIN img[r] |-> <<100 * img[r][c] - p_low, p_high - p_low>>]]

\* np.zeros_like(img2d, dtype=float32)
ZerosLike(img) ==
    [r \in DOMAIN img |-> [c \in DOMAIN img[r] |-> <<0, 1>>]]

ClipAll(disp) ==
    [r \in DOMAIN disp |-> [c \in DOMAIN disp[r] |-> Clip01(disp[r][c])]]

\* faulty variant: the flat-image guard of line 33 is missing
percentile_contrast_unguarded(img, low, high) ==
    LET p_low  == Percentile100(Flatten(img), low)
        p_high == Percentile100(Flatten(img), high)
    IN  [disp |-> ClipAll(Stretch(img, p_low, p_high)),
         divided |-> TRUE,
         divByZero |-> (p_high = p_low)]

\* faulty variant: the clip of line 37 is missing
percentile_contrast_unclipped(img, low, high) ==
    LET p_low  == Percentile100(Flatten(img), low)
        p_high == Percentile100(Flatten(img), high)
    IN  IF p_high = p_low
        THEN [disp |-> ZerosLike(img), divided |-> FALSE, divByZero |-> FALSE]
        ELSE [disp |-> Stretch(img, p_low, p_high),
              divided |-> TRUE, divByZero |-> FALSE]

percentile_contrast(img, low, high) ==
    LET p_low  == Percentile100(Flatten(img), low)
        p_high == Percentile100(Flatten(img), high)
    IN  IF p_high = p_low
        THEN [disp |-> ClipAll(ZerosLike(img)),
              divided |-> FALSE, divByZero |-> FALSE]
        ELSE [disp |-> ClipAll(Stretch(img, p_low, p_high)),
              divided |-> TRUE, divByZero |-> FALSE]

\* ------------------------------------------------- the contrast component
PctPairs == {<<1, 99>>, <<25, 75>>, <<50, 50>>}

Images ==
    UNION {[1..h -> [1..w -> 0..MaxPix]] : h \in 1..MaxRows, w \in 1..MaxCols}

contrastVars == <<img2d, cpc, pct, img_disp, divided, divByZero>>

ContrastIdle ==
    /\ img2d = <<>>
    /\ cpc = "idle"
    /\ pct = <<>>
    /\ img_disp = <<>>
    /\ divided = FALSE
    /\ divByZero = FALSE

ContrastInit ==
    /\ img2d \in Images
    /\ cpc = "ready"
    /\ pct = <<>>
    /\ img_disp = <<>>
    /\ divided = FALSE
    /\ divByZero = FALSE

\* one call percentile_contrast(img2d, low, high)
ContrastCall ==
    /\ cpc = "ready"
    /\ \E p \in PctPairs :
        LET r == percentile_contrast(img2d, p[1], p[2])
        IN  /\ pct' = p
            /\ img_disp' = r.disp
            /\ divided' = r.divided
            /\ divByZero' = r.divByZero
    /\ cpc' = "returned"
    /\ UNCHANGED img2d

\* ------------------------------------------------ save_as_tiff component
\* A floating-point element is the fraction val / GridDen; an integer
\* element is val itself.
GridDen == 40
Scale16 == 65535
Wrap16 == 65536

FloatElems == [kind : {"f"}, val : (0 - GridDen)..(2 * GridDen)]
IntElems ==
    [kind : {"u1"}, val : {0, 100, 255}]
        \cup [kind : {"u2"}, val : {0, 256, 65535}]
        \cup [kind : {"i4"}, val : {0 - 1, 300, 65536, 70000}]
Elems == FloatElems \cup IntElems

\* ndarray.astype(np.uint16) of an integer: the value modulo 2^16
AsUint16(v) == v % Wrap16

\* np.clip(x, lo, hi) of a fraction num / den, den > 0, kept over den
ClipFrac(num, den, lo, hi) ==
    IF num < lo * den THEN lo * den ELSE IF num > hi * den THEN hi * den ELSE num

\* astype(np.uint16) of a non-negative fraction: truncation
TruncFrac(num, den) == num \div den

\* faulty variant: the scale factor is 2^16 instead of 2^16 - 1
arr_to_save_scaled65536(e) ==
    IF e.kind # "u2"
    THEN IF e.kind = "f"
         THEN TruncFrac(ClipFrac(e.val * Wrap16, GridDen, 0, Scale16), GridDen)
         ELSE AsUint16(e.val)
    ELSE e.val

\* lines 55-63: the element save_as_tiff hands to the TIFF writer
arr_to_save(e) ==
    IF e.kind # "u2"
    THEN IF e.kind = "f"
         THEN TruncFrac(ClipFrac(e.val * Scale16, GridDen, 0, Scale16), GridDen)
         ELSE AsUint16(e.val)
    ELSE e.val

\* a 16-bit sample as the writer stores it: two bytes, low byte first
EncodeU16(v) == <<v % 256, v \div 256>>
DecodeU16(b) == b[1] + 256 * b[2]

tiffVars == <<arr, tpc, tfile, tread>>

TiffIdle ==
    /\ arr = [kind |-> "none", val |-> 0]
    /\ tpc = "idle"
    /\ tfile = <<>>
    /\ tread = <<>>

TiffInit ==
    /\ arr \in Elems
    /\ tpc = "ready"
    /\ tfile = <<>>
    /\ tread = <<>>

\* save_as_tiff(arr, out_path): convert, then tiff.imwrite
save_as_tiff ==
    /\ tpc = "ready"
    /\ tfile' = EncodeU16(arr_to_save(arr))
    /\ tpc' = "written"
    /\ UNCHANGED <<arr, tread>>

\* the written file is read back
ReadBack ==
    /\ tpc = "written"
    /\ tread' = <<DecodeU16(tfile)>>
    /\ tpc' = "read"
    /\ UNCHANGED <<arr, tfile>>

\* --------------------------------------------- summarize_movie component
MaxFrames == 3
MaxRuns == 2

RECURSIVE Digits(_)
\* the decimal digits of a natural number, most significant first
Digits(n) == IF n < 10 THEN <<n>> ELSE Digits(n \div 10) \o <<n % 10>>

RECURSIVE ZeroPad(_, _)
ZeroPad(d, width) == IF Len(d) >= width THEN d ELSE ZeroPad(<<0>> \o d, width)

\* f"{n:04d}"
Format04d(n) == ZeroPad(Digits(n), 4)

\* a file name: <<stem, digits, extension>>
FrameName(t) == <<"frame_", Format04d(t), ".png">>
MeanPng == <<"mean_projection", <<>>, ".png">>
MaxPng == <<"max_projection", <<>>, ".png">>
MeanTif == <<"mean_projection", <<>>, ".tif">>
MaxTif == <<"max_projection", <<>>, ".tif">>
NotesTxt == <<"notes", <<>>, ".txt">>

\* faulty variant: the middle index is rounded up
mid_t_roundup(n) == (n + 1) \div 2

\* line 76
mid_t(n) == n \div 2

\* faulty variant: an existing file is kept and the new content goes to a fresh name
WriteFile_versioned(fs, name, stamp) ==
    IF name \in DOMAIN fs
    THEN [f \in DOMAIN fs \cup {<<name[1], name[2] \o <<stamp>>, name[3]>>} |->
            IF f \in DOMAIN fs THEN fs[f] ELSE stamp]
    ELSE [f \in DOMAIN fs \cup {name} |-> IF f = name THEN stamp ELSE fs[f]]

\* writing a file creates it or replaces its content; the content is
\* recorded as the number of the run that wrote it (0: there beforehand)
WriteFile(fs, name, stamp) ==
    [f \in DOMAIN fs \cup {name} |-> IF f = name THEN stamp ELSE fs[f]]

NoWindow == <<>>
EmptyDir == [f \in {} |-> 0]
OldFiles(names) == [f \in names |-> 0]

sumVars == <<n_frames, spc, dirState, files, runs, listing1, window, serr>>

SumIdle ==
    /\ n_frames = 0
    /\ spc = "idle"
    /\ dirState = "absent"
    /\ files = EmptyDir
    /\ runs = 0
    /\ listing1 = {}
    /\ window = NoWindow
    /\ serr = None

\* the save directory before the first run: absent, a regular file of that
\* name, or a directory that may hold files already
DiskInit ==
    /\ dirState \in {"absent", "file", "dir"}
    /\ files \in IF dirState = "dir"
                 THEN {OldFiles(s) : s \in SUBSET {NotesTxt, MeanPng}}
                 ELSE {EmptyDir}

SumInit ==
    /\ n_frames \in 1..MaxFrames
    /\ spc = "ready"
    /\ DiskInit
    /\ runs = 0
    /\ listing1 = {}
    /\ window = NoWindow
    /\ serr = None

\* line 73: save_dir.mkdir(parents=True, exist_ok=True)
SumMkdir ==
    /\ spc = "ready"
    /\ IF dirState = "file"
       THEN /\ spc' = "error"
            /\ serr' = "FileExistsError"
            /\ UNCHANGED dirState
       ELSE /\ dirState' = "dir"
            /\ spc' = "show_mid"
            /\ UNCHANGED serr
    /\ UNCHANGED <<n_frames, files, runs, listing1, window>>

\* lines 80, 94, 95: show_frame(...) opens the window; plt.show() blocks
SumShowFrame ==
    /\ spc \in {"show_mid", "show_mean", "show_max"}
    /\ window' = CASE spc = "show_mid" -> <<"Frame", mid_t(n_frames), n_frames>>
                   [] spc = "show_mean" -> <<"Mean across time">>
                   [] spc = "show_max" -> <<"Max across time">>
    /\ spc' = CASE spc = "show_mid" -> "wait_mid"
                [] spc = "show_mean" -> "wait_mean"
                [] spc = "show_max" -> "wait_max"
    /\ UNCHANGED <<n_frames, dirState, files, runs, listing1, serr>>

\* the user closes the window and plt.show() returns
SumCloseWindow ==
    /\ spc \in {"wait_mid", "wait_mean", "wait_max"}
    /\ window' = NoWindow
    /\ spc' = CASE spc = "wait_mid" -> "save_mid_png"
                [] spc = "wait_mean" -> "show_max"
                [] spc = "wait_max" -> "save_mean_png"
    /\ UNCHANGED <<n_frames, dirState, files, runs, listing1, serr>>

\* lines 83-87, 98-107: plt.imsave of a PNG
SumImsave ==
    /\ spc \in {"save_mid_png", "save_mean_png", "save_max_png"}
    /\ files' = WriteFile(files,
                    CASE spc = "save_mid_png" -> FrameName(mid_t(n_frames))
                      [] spc = "save_mean_png" -> MeanPng
                      [] spc = "save_max_png" -> MaxPng,
                    runs + 1)
    /\ spc' = CASE spc = "save_mid_png" -> "show_mean"
                [] spc = "save_mean_png" -> "save_max_png"
                [] spc = "save_max_png" -> "save_mean_tif"
    /\ UNCHANGED <<n_frames, dirState, runs, listing1, window, serr>>

\* lines 110-111: save_as_tiff of a projection
SumSaveTiff ==
    /\ spc \in {"save_mean_tif", "save_max_tif"}
    /\ files' = WriteFile(files,
                    IF spc = "save_mean_tif" THEN MeanTif ELSE MaxTif,
                    runs + 1)
    /\ spc' = IF spc = "save_mean_tif" THEN "save_max_tif" ELSE "print"
    /\ UNCHANGED <<n_frames, dirState, runs, listing1, window, serr>>

\* line 113: the final message; summarize_movie returns
SumPrint ==
    /\ spc = "print"
    /\ spc' = "done"
    /\ runs' = runs + 1
    /\ listing1' = IF runs = 0 THEN DOMAIN files ELSE listing1
    /\ UNCHANGED <<n_frames, dirState, files, window, serr>>

\* summarize_movie is called again on the same stack and directory
SumRerun ==
    /\ spc = "done"
    /\ runs < MaxRuns
    /\ spc' = "ready"
    /\ UNCHANGED <<n_frames, dirState, files, runs, listing1, window, serr>>

\* --------------------------------------------------- play_movie component
MaxLog == 7
MaxPasses == 2

\* an argument that was not supplied is <<>>, a supplied index k is <<k>>
NoStop == <<>>
NoTitle == <<>>
NoImage == <<>>

playVars == <<p_n, p_start, p_stopArg, p_stop, ppc, p_next, im, ptitle,
              shown, passes, perr>>

PlayIdle ==
    /\ p_n = 0
    /\ p_start = 0
    /\ p_stopArg = NoStop
    /\ p_stop = 0
    /\ ppc = "idle"
    /\ p_next = 0
    /\ im = NoImage
    /\ ptitle = NoTitle
    /\ shown = <<>>
    /\ passes = 0
    /\ perr = None

\* a stack of N >= 1 frames and a call with 0 <= start <= stop <= N, or
\* with stop not supplied
PlayInit ==
    /\ p_n \in 1..MaxFrames
    /\ p_start \in 0..p_n
    /\ p_stopArg \in {NoStop} \cup {<<k>> : k \in p_start..p_n}
    /\ p_stop = 0
    /\ ppc = "ready"
    /\ p_next = 0
    /\ im = NoImage
    /\ ptitle = NoTitle
    /\ shown = <<>>
    /\ passes = 0
    /\ perr = None

\* line 118: stop = stop or data.shape[0]  (None and 0 are both falsy)
stop_or_default(stop, n) ==
    IF stop = NoStop THEN n ELSE IF stop[1] = 0 THEN n ELSE stop[1]

\* line 125: f"Frame {i+1}/{data.shape[0]}"
FrameTitle(i, n) == <<i + 1, n>>

\* the log of displayed frames keeps its first MaxLog entries
Log(s, i) == IF Len(s) < MaxLog THEN Append(s, i) ELSE s

\* lines 118-131 up to the blocking plt.show(): the first image is
\* data[start] (IndexError when start = N); starting the animation draws the
\* first frame of the range once (its initial draw, not a timer step).
PlayCall ==
    /\ ppc = "ready"
    /\ p_stop' = stop_or_default(p_stopArg, p_n)
    /\ IF p_start >= p_n
       THEN /\ ppc' = "error"
            /\ perr' = "IndexError"
            /\ UNCHANGED <<im, ptitle, p_next>>
       ELSE /\ ppc' = "playing"
            /\ im' = <<p_start>>
            /\ ptitle' = IF p_start < p_stop'
                         THEN FrameTitle(p_start, p_n) ELSE NoTitle
            /\ p_next' = p_start
            /\ UNCHANGED perr
    /\ UNCHANGED <<p_n, p_start, p_stopArg, shown, passes>>

\* faulty variant: the animation is created with repeat=False
PlayTick_norepeat ==
    /\ ppc = "playing"
    /\ IF p_next < p_stop
       THEN /\ im' = <<p_next>>
            /\ ptitle' = FrameTitle(p_next, p_n)
            /\ shown' = Log(shown, p_next)
            /\ p_next' = p_next + 1
            /\ UNCHANGED <<passes, ppc>>
       ELSE /\ ppc' = "stopped"
            /\ UNCHANGED <<im, ptitle, shown, p_next, passes>>
    /\ UNCHANGED <<p_n, p_start, p_stopArg, p_stop, perr>>

\* one timer step of the animation (interval 1000/fps ms).  While the frame
\* iterator range(start, stop) has a next index i, update(i) runs (lines
\* 123-126).  When it is exhausted the animation, created without
\* repeat=False (lines 128-130), starts over: it redraws the first frame of
\* the range and iterates range(start, stop) again.
PlayTick ==
    /\ ppc = "playing"
    /\ IF p_next < p_stop
       THEN /\ im' = <<p_next>>
            /\ ptitle' = FrameTitle(p_next, p_n)
            /\ shown' = Log(shown, p_next)
            /\ p_next' = p_next + 1
            /\ UNCHANGED passes
       ELSE /\ p_next' = p_start
            /\ passes' = Min(passes + 1, MaxPasses)
            /\ im' = IF p_start < p_stop THEN <<p_start>> ELSE im
            /\ ptitle' = IF p_start < p_stop
                         THEN FrameTitle(p_start, p_n) ELSE ptitle
            /\ UNCHANGED shown
    /\ UNCHANGED <<p_n, p_start, p_stopArg, p_stop, ppc, perr>>

\* the user closes the window: plt.show() and play_movie return
PlayClose ==
    /\ ppc = "playing"
    /\ ppc' = "returned"
    /\ UNCHANGED <<p_n, p_start, p_stopArg, p_stop, p_next, im, ptitle,
                   shown, passes, perr>>

\* ------------------------- load_tiff_stack and the reader entry point
MaxNdim == 4

FileKinds == {"missing", "bad_header", "bad_data", "ok"}

readerVars == <<r_file, r_ndim, r_axis0, r_desc, r_metaFrames, rpc, r_handle,
                r_locals, r_ret, r_out, r_err, r_disk0>>

ReaderIdle ==
    /\ r_file = "ok"
    /\ r_ndim = 0
    /\ r_axis0 = 0
    /\ r_desc = "none"
    /\ r_metaFrames = FALSE
    /\ rpc = "idle"
    /\ r_handle = "none"
    /\ r_locals = {}
    /\ r_ret = <<>>
    /\ r_out = <<>>
    /\ r_err = None
    /\ r_disk0 = <<>>

ReaderInit ==
    /\ r_file \in FileKinds
    /\ r_ndim \in 2..MaxNdim
    /\ r_axis0 \in 1..MaxFrames
    /\ r_desc \in {"none", "frames", "slices", "other"}
    /\ r_metaFrames \in BOOLEAN
    /\ rpc = "start"
    /\ r_handle = "none"
    /\ r_locals = {}
    /\ r_ret = <<>>
    /\ r_out = <<>>
    /\ r_err = None
    /\ n_frames = 0
    /\ spc = "idle"
    /\ DiskInit
    /\ runs = 0
    /\ listing1 = {}
    /\ window = NoWindow
    /\ serr = None
    /\ r_disk0 = <<dirState, files>>

\* faulty variant: the file is used without a with-block, so nothing closes it
with_exit_leak(h) == h

\* line 18: leaving the with-block, normally or by an exception, closes
\* the handle
with_exit(h) == "closed"

\* line 18, tiff.TiffFile(path): a missing file raises before any handle
\* exists; a file that is not a TIFF is opened, and the constructor closes
\* it again before raising
LtsOpen ==
    /\ rpc = "start"
    /\ CASE r_file = "missing" ->
              /\ rpc' = "exit1"
              /\ r_err' = "FileNotFoundError"
              /\ UNCHANGED r_handle
         [] r_file = "bad_header" ->
              /\ rpc' = "exit1"
              /\ r_err' = "TiffFileError"
              /\ r_handle' = "closed"
         [] OTHER ->
              /\ rpc' = "asarray"
              /\ r_handle' = "open"
              /\ UNCHANGED r_err
    /\ UNCHANGED <<r_file, r_ndim, r_axis0, r_desc, r_metaFrames, r_locals,
                   r_ret, r_out, r_disk0>>

\* line 19: data = tif.asarray(); a decoding error leaves the with-block
LtsAsarray ==
    /\ rpc = "asarray"
    /\ IF r_file = "bad_data"
       THEN /\ rpc' = "exit1"
            /\ r_err' = "DecodeError"
            /\ r_handle' = with_exit(r_handle)
            /\ UNCHANGED r_locals
       ELSE /\ rpc' = "tags"
            /\ r_locals' = r_locals \cup {"data"}
            /\ UNCHANGED <<r_err, r_handle>>
    /\ UNCHANGED <<r_file, r_ndim, r_axis0, r_desc, r_metaFrames, r_ret,
                   r_out, r_disk0>>

\* lines 21-23: the tags and the description of the first page
LtsTags ==
    /\ rpc = "tags"
    /\ r_locals' = r_locals \cup {"meta", "desc"}
    /\ rpc' = "with_exit"
    /\ UNCHANGED <<r_file, r_ndim, r_axis0, r_desc, r_metaFrames, r_handle,
                   r_ret, r_out, r_err, r_disk0>>

\* the end of the with-block of line 18
LtsWithExit ==
    /\ rpc = "with_exit"
    /\ r_handle' = with_exit(r_handle)
    /\ rpc' = "return"
    /\ UNCHANGED <<r_file, r_ndim, r_axis0, r_desc, r_metaFrames, r_locals,
                   r_ret, r_out, r_err, r_disk0>>

\* line 25: return data, meta, desc
LtsReturn ==
    /\ rpc = "return"
    /\ r_ret' = <<"data", "meta", "desc">>
    /\ rpc' = "print_info"
    /\ UNCHANGED <<r_file, r_ndim, r_axis0, r_desc, r_metaFrames, r_handle,
                   r_locals, r_out, r_err, r_disk0>>

\* lines 142-147
MainPrintInfo ==
    /\ rpc = "print_info"
    /\ r_out' = r_out \o <<"shape", "dtype", "minmax", "description">>
    /\ rpc' = "branch"
    /\ UNCHANGED <<r_file, r_ndim, r_axis0, r_desc, r_metaFrames, r_handle,
                   r_locals, r_ret, r_err, r_disk0>>

\* faulty variant: any stack of three or more dimensions is summarised
is_3d_atleast(ndim) == ndim >= 3

\* line 151: data.ndim == 3
is_3d(ndim) == ndim = 3

\* lines 153-158: the guess of what axis 0 is
AxisMessage(desc, metaFrames) ==
    IF desc = "frames" \/ metaFrames THEN "axis_time"
    ELSE IF desc = "slices" THEN "axis_depth"
    ELSE "axis_guess"

\* lines 151-160: a 3D array; the axis message, then summarize_movie is
\* called with the array and Path("previews")
MainMovie ==
    /\ rpc = "branch"
    /\ is_3d(r_ndim)
    /\ r_out' = Append(r_out, AxisMessage(r_desc, r_metaFrames))
    /\ rpc' = "summarize"
    /\ n_frames' = r_axis0
    /\ spc' = "ready"
    /\ UNCHANGED <<r_file, r_ndim, r_axis0, r_desc, r_metaFrames, r_handle,
                   r_locals, r_ret, r_err, r_disk0>>
    /\ UNCHANGED <<dirState, files, runs, listing1, window, serr>>

\* lines 162-163: any other dimensionality; the script ends
MainUnexpected ==
    /\ rpc = "branch"
    /\ ~is_3d(r_ndim)
    /\ r_out' = Append(r_out, "unexpected_dimensionality")
    /\ rpc' = "exit0"
    /\ UNCHANGED <<r_file, r_ndim, r_axis0, r_desc, r_metaFrames, r_handle,
                   r_locals, r_ret, r_err, r_disk0>>
    /\ UNCHANGED sumVars

\* summarize_movie returned or raised: the script ends
MainEnd ==
    /\ rpc = "summarize"
    /\ spc \in {"done", "error"}
    /\ rpc' = IF spc = "done" THEN "exit0" ELSE "exit1"
    /\ r_err' = IF spc = "done" THEN r_err ELSE serr
    /\ UNCHANGED <<r_file, r_ndim, r_axis0, r_desc, r_metaFrames, r_handle,
                   r_locals, r_ret, r_out, r_disk0>>
    /\ UNCHANGED sumVars

\* --------------------------------- load_tiff and the viewer entry point
Unset == "unset"
NoScale == <<>>

\* the resolution rationals a first page may carry
Rationals == {<<72, 1>>, <<144, 2>>, <<0, 1>>, <<1, 0>>}

TagSets ==
    UNION {[names -> Rationals] : names \in SUBSET {"XResolution", "YResolution"}}

viewerVars == <<v_file, v_tags, vpc, v_where, v_handle, v_res, v_scale,
                viewers, layers, v_data, v_out, v_err, v_errStep>>

NoTags == [t \in {} |-> <<0, 0>>]

ViewerIdle ==
    /\ v_file = "ok"
    /\ v_tags = NoTags
    /\ vpc = "idle"
    /\ v_where = "main"
    /\ v_handle = "none"
    /\ v_res = NoTags
    /\ v_scale = NoScale
    /\ viewers = 0
    /\ layers = <<>>
    /\ v_data = Unset
    /\ v_out = <<>>
    /\ v_err = None
    /\ v_errStep = None

ViewerInit ==
    /\ v_file \in FileKinds
    /\ v_tags \in TagSets
    /\ vpc = "start"
    /\ v_where = "load_tiff"
    /\ v_handle = "none"
    /\ v_res = NoTags
    /\ v_scale = NoScale
    /\ viewers = 0
    /\ layers = <<>>
    /\ v_data = Unset
    /\ v_out = <<>>
    /\ v_err = None
    /\ v_errStep = None

\* faulty variant: a missing tag reads as the default resolution 1/1
tag_value_default(tags, name) ==
    IF name \in DOMAIN tags THEN <<"ok", tags[name]>> ELSE <<"ok", <<1, 1>>>>

\* lines 11-12: tags[name].value; a missing tag is a KeyError
tag_value(tags, name) ==
    IF name \in DOMAIN tags THEN <<"ok", tags[name]>> ELSE <<"KeyError">>

\* line 8, tifffile.TiffFile(tif_path)
VOpen ==
    /\ vpc = "start"
    /\ CASE v_file = "missing" ->
              /\ vpc' = "exit1"
              /\ v_err' = "FileNotFoundError"
              /\ v_errStep' = "load"
              /\ UNCHANGED v_handle
         [] v_file = "bad_header" ->
              /\ vpc' = "exit1"
              /\ v_err' = "TiffFileError"
              /\ v_errStep' = "load"
              /\ v_handle' = "closed"
         [] OTHER ->
              /\ vpc' = "asarray"
              /\ v_handle' = "open"
              /\ UNCHANGED <<v_err, v_errStep>>
    /\ UNCHANGED <<v_file, v_tags, v_where, v_res, v_scale, viewers, layers,
                   v_data, v_out>>

\* lines 9-10: data = tif.asarray(); tags = tif.pages[0].tags
VAsarray ==
    /\ vpc = "asarray"
    /\ IF v_file = "bad_data"
       THEN /\ vpc' = "exit1"
            /\ v_err' = "DecodeError"
            /\ v_errStep' = "decode"
            /\ v_handle' = with_exit(v_handle)
       ELSE /\ vpc' = "xres"
            /\ UNCHANGED <<v_err, v_errStep, v_handle>>
    /\ UNCHANGED <<v_file, v_tags, v_where, v_res, v_scale, viewers, layers,
                   v_data, v_out>>

\* lines 11 and 12: xres, then yres; a KeyError leaves the with-block
VReadTag ==
    /\ vpc \in {"xres", "yres"}
    /\ LET name == IF vpc = "xres" THEN "XResolution" ELSE "YResolution"
           got == tag_value(v_tags, name)
       IN  IF got[1] = "ok"
           THEN /\ v_res' = [n \in DOMAIN v_res \cup {name} |->
                                IF n = name THEN got[2] ELSE v_res[n]]
                /\ vpc' = IF vpc = "xres" THEN "yres" ELSE "with_exit"
                /\ UNCHANGED <<v_err, v_errStep, v_handle>>
           ELSE /\ vpc' = "exit1"
                /\ v_err' = "KeyError"
                /\ v_errStep' = "metadata"
                /\ v_handle' = with_exit(v_handle)
                /\ UNCHANGED v_res
    /\ UNCHANGED <<v_file, v_tags, v_where, v_scale, viewers, layers,
                   v_data, v_out>>

\* the end of the with-block of line 8
VWithExit ==
    /\ vpc = "with_exit"
    /\ v_handle' = with_exit(v_handle)
    /\ vpc' = "scale"
    /\ UNCHANGED <<v_file, v_tags, v_where, v_res, v_scale, viewers, layers,
                   v_data, v_out, v_err, v_errStep>>

\* lines 15-20 for one axis: 1.0 / (num / den) is den / num; num / den
\* raises for den = 0 and 1.0 / 0.0 raises for num = 0
px_size(r) == <<r[2], r[1]>>

\* lines 15-24: scale = (1.0, px_size_y, px_size_x)
VScale ==
    /\ vpc = "scale"
    /\ LET xres == v_res["XResolution"]
           yres == v_res["YResolution"]
       IN  IF xres[1] = 0 \/ xres[2] = 0 \/ yres[1] = 0 \/ yres[2] = 0
           THEN /\ vpc' = "exit1"
                /\ v_err' = "ZeroDivisionError"
                /\ v_errStep' = "metadata"
                /\ UNCHANGED v_scale
           ELSE /\ v_scale' = <<<<1, 1>>, px_size(yres), px_size(xres)>>
                /\ vpc' = "print"
                /\ UNCHANGED <<v_err, v_errStep>>
    /\ UNCHANGED <<v_file, v_tags, v_where, v_handle, v_res, viewers, layers,
                   v_data, v_out>>

\* lines 26-27
VPrint ==
    /\ vpc = "print"
    /\ v_out' = v_out \o <<"data shape", "scale going to napari">>
    /\ vpc' = "viewer"
    /\ UNCHANGED <<v_file, v_tags, v_where, v_handle, v_res, v_scale, viewers,
                   layers, v_data, v_err, v_errStep>>

\* lines 29 and 52: viewer = napari.Viewer()
VViewer ==
    /\ vpc = "viewer"
    /\ viewers' = viewers + 1
    /\ vpc' = "add_image"
    /\ UNCHANGED <<v_file, v_tags, v_where, v_handle, v_res, v_scale, layers,
                   v_data, v_out, v_err, v_errStep>>

\* lines 30-39 (with the scale) and 53-58 (without): viewer.add_image(...)
VAddImage ==
    /\ vpc = "add_image"
    /\ layers' = Append(layers,
                    IF v_where = "load_tiff" THEN <<"2p_stack", v_scale>>
                    ELSE <<"2P_movie", NoScale>>)
    /\ vpc' = "run"
    /\ UNCHANGED <<v_file, v_tags, v_where, v_handle, v_res, v_scale, viewers,
                   v_data, v_out, v_err, v_errStep>>

\* lines 40 and 60: napari.run() blocks until the user closes the viewer.
\* load_tiff then falls off its end, so line 47 binds data to Python's None;
\* after line 60 the script ends.
VRunClosed ==
    /\ vpc = "run"
    /\ IF v_where = "load_tiff"
       THEN /\ v_data' = None
            /\ v_where' = "main"
            /\ vpc' = "main_print"
       ELSE /\ vpc' = "exit0"
            /\ UNCHANGED <<v_data, v_where>>
    /\ UNCHANGED <<v_file, v_tags, v_handle, v_res, v_scale, viewers, layers,
                   v_out, v_err, v_errStep>>

\* line 48: print("Loaded data:", data.shape, data.dtype); None has no
\* attribute shape
VMainPrint ==
    /\ vpc = "main_print"
    /\ IF v_data = None
       THEN /\ vpc' = "exit1"
            /\ v_err' = "AttributeError"
            /\ v_errStep' = "print"
            /\ UNCHANGED v_out
       ELSE /\ v_out' = Append(v_out, "Loaded data")
            /\ vpc' = "viewer"
            /\ UNCHANGED <<v_err, v_errStep>>
    /\ UNCHANGED <<v_file, v_tags, v_where, v_handle, v_res, v_scale, viewers,
                   layers, v_data>>

\* ---------------------------------------------------------- specifications
vars == <<contrastVars, tiffVars, sumVars, playVars, readerVars, viewerVars>>

\* everything but the contrast component
ContrastRest == <<tiffVars, sumVars, playVars, readerVars, viewerVars>>

ContrastNext ==
    \/ ContrastCall /\ UNCHANGED <<ContrastRest>>

ContrastStart ==
    ContrastInit /\ TiffIdle /\ SumIdle /\ PlayIdle /\ ReaderIdle /\ ViewerIdle

ContrastSpec == ContrastStart /\ [][ContrastNext]_vars

\* everything but the tiff component
TiffRest == <<contrastVars, sumVars, playVars, readerVars, viewerVars>>

TiffNext ==
    \/ save_as_tiff /\ UNCHANGED <<TiffRest>>
    \/ ReadBack /\ UNCHANGED <<TiffRest>>

TiffStart ==
    TiffInit /\ ContrastIdle /\ SumIdle /\ PlayIdle /\ ReaderIdle /\ ViewerIdle

TiffSpec == TiffStart /\ [][TiffNext]_vars

\* everything but the sum component
SumRest == <<contrastVars, tiffVars, playVars, readerVars, viewerVars>>

SumNext ==
    \/ SumMkdir /\ UNCHANGED <<SumRest>>
    \/ SumShowFrame /\ UNCHANGED <<SumRest>>
    \/ SumCloseWindow /\ UNCHANGED <<SumRest>>
    \/ SumImsave /\ UNCHANGED <<SumRest>>
    \/ SumSaveTiff /\ UNCHANGED <<SumRest>>
    \/ SumPrint /\ UNCHANGED <<SumRest>>
    \/ SumRerun /\ UNCHANGED <<SumRest>>

SumStart ==
    SumInit /\ ContrastIdle /\ TiffIdle /\ PlayIdle /\ ReaderIdle /\ ViewerIdle

SumSpec == SumStart /\ [][SumNext]_vars

\* everything but the play component
PlayRest == <<contrastVars, tiffVars, sumVars, readerVars, viewerVars>>

PlayNext ==
    \/ PlayCall /\ UNCHANGED <<PlayRest>>
    \/ PlayTick /\ UNCHANGED <<PlayRest>>
    \/ PlayClose /\ UNCHANGED <<PlayRest>>

PlayStart ==
    PlayInit /\ ContrastIdle /\ TiffIdle /\ SumIdle /\ ReaderIdle /\ ViewerIdle

PlaySpec == PlayStart /\ [][PlayNext]_vars

\* everything but the reader component and the summariser it calls
ReaderRest == <<contrastVars, tiffVars, playVars, viewerVars>>

ReaderNext ==
    \/ LtsOpen /\ UNCHANGED <<ReaderRest, sumVars>>
    \/ LtsAsarray /\ UNCHANGED <<ReaderRest, sumVars>>
    \/ LtsTags /\ UNCHANGED <<ReaderRest, sumVars>>
    \/ LtsWithExit /\ UNCHANGED <<ReaderRest, sumVars>>
    \/ LtsReturn /\ UNCHANGED <<ReaderRest, sumVars>>
    \/ MainPrintInfo /\ UNCHANGED <<ReaderRest, sumVars>>
    \/ MainMovie /\ UNCHANGED ReaderRest
    \/ MainUnexpected /\ UNCHANGED ReaderRest
    \/ SumMkdir /\ UNCHANGED <<ReaderRest, readerVars>>
    \/ SumShowFrame /\ UNCHANGED <<ReaderRest, readerVars>>
    \/ SumCloseWindow /\ UNCHANGED <<ReaderRest, readerVars>>
    \/ SumImsave /\ UNCHANGED <<ReaderRest, readerVars>>
    \/ SumSaveTiff /\ UNCHANGED <<ReaderRest, readerVars>>
    \/ SumPrint /\ UNCHANGED <<ReaderRest, readerVars>>
    \/ MainEnd /\ UNCHANGED ReaderRest

ReaderStart ==
    ReaderInit /\ ContrastIdle /\ TiffIdle /\ PlayIdle /\ ViewerIdle

ReaderSpec == ReaderStart /\ [][ReaderNext]_vars

\* everything but the viewer component
ViewerRest == <<contrastVars, tiffVars, sumVars, playVars, readerVars>>

ViewerNext ==
    \/ VOpen /\ UNCHANGED <<ViewerRest>>
    \/ VAsarray /\ UNCHANGED <<ViewerRest>>
    \/ VReadTag /\ UNCHANGED <<ViewerRest>>
    \/ VWithExit /\ UNCHANGED <<ViewerRest>>
    \/ VScale /\ UNCHANGED <<ViewerRest>>
    \/ VPrint /\ UNCHANGED <<ViewerRest>>
    \/ VViewer /\ UNCHANGED <<ViewerRest>>
    \/ VAddImage /\ UNCHANGED <<ViewerRest>>
    \/ VRunClosed /\ UNCHANGED <<ViewerRest>>
    \/ VMainPrint /\ UNCHANGED <<ViewerRest>>

ViewerStart ==
    ViewerInit /\ ContrastIdle /\ TiffIdle /\ SumIdle /\ PlayIdle /\ ReaderIdle

ViewerSpec == ViewerStart /\ [][ViewerNext]_vars

\* the timer fires as long as the window is open; nothing obliges the user
\* to close the window
PlayFairSpec ==
    PlaySpec /\ WF_vars(PlayCall /\ UNCHANGED PlayRest)
        /\ WF_vars(PlayTick /\ UNCHANGED PlayRest)

\* the percentiles of the call that returned, scaled by 100
PLow == Percentile100(Flatten(img2d), pct[1])
PHigh == Percentile100(Flatten(img2d), pct[2])

\* C1: after percentile_contrast returns for an image whose low and high
\* percentile values differ, every output pixel is in [0, 1]; a pixel with
\* value <= p_low is 0, one with value >= p_high is 1, and one strictly
\* between is (v - p_low) / (p_high - p_low).
C1_StretchInUnitInterval ==
    cpc = "returned" =>
        LET pl == PLow
            ph == PHigh
        IN  pl # ph =>
            \A r \in DOMAIN img2d : \A c \in DOMAIN img2d[r] :
                LET v == 100 * img2d[r][c]
                    o == img_disp[r][c]
                IN  /\ o[2] > 0 /\ 0 <= o[1] /\ o[1] <= o[2]
                    /\ (v <= pl => o[1] = 0)
                    /\ (v >= ph => o[1] = o[2])
                    /\ (pl < v /\ v < ph =>
                            o[1] * (ph - pl) = (v - pl) * o[2])

\* a returned call with spread percentiles and a pixel strictly between them
C1_Witness ==
    /\ cpc = "returned"
    /\ PLow < PHigh
    /\ \E r \in DOMAIN img2d : \E c \in DOMAIN img2d[r] :
        /\ PLow < 100 * img2d[r][c]
        /\ 100 * img2d[r][c] < PHigh
    /\ \E r \in DOMAIN img2d : \E c \in DOMAIN img2d[r] : 100 * img2d[r][c] < PLow
    /\ \E r \in DOMAIN img2d : \E c \in DOMAIN img2d[r] : 100 * img2d[r][c] > PHigh

\* C2: when the low and high percentile values are equal, the result has
\* the shape of the input, every element is exactly 0, and no division was
\* evaluated (so none by zero).
C2_FlatImageAllZero ==
    /\ ~divByZero
    /\ (cpc = "returned" /\ PLow = PHigh) =>
        /\ ~divided
        /\ DOMAIN img_disp = DOMAIN img2d
        /\ \A r \in DOMAIN img2d :
            /\ DOMAIN img_disp[r] = DOMAIN img2d[r]
            /\ \A c \in DOMAIN img2d[r] : img_disp[r][c] = <<0, 1>>

\* a returned call whose percentile window collapsed although pixels differ
C2_Witness ==
    /\ cpc = "returned"
    /\ PLow = PHigh
    /\ \E r \in DOMAIN img2d : \E c \in DOMAIN img2d[r] :
        img2d[r][c] # img2d[1][1]

\* C3 as stated: once playing, playback eventually stops by itself.
C3_Original == (ppc = "playing") ~> (ppc # "playing")

\* C3 amended: playback never stops by itself.  A redraw step keeps the
\* animation playing; once the range [start, stop) is exhausted the next
\* step starts it again at start; playback ends only when the user closes
\* the window, and closing it ends play_movie.
C3_PlaybackEndsOnlyOnClose ==
    /\ [][ppc = "playing" /\ ppc' # "playing" =>
            ppc' = "returned" /\ shown' = shown /\ p_next' = p_next]_vars
    /\ [][ppc = "playing" /\ ppc' = "playing" /\ p_next = p_stop =>
            p_next' = p_start]_vars
    /\ (ppc = "playing" /\ p_next = p_stop) ~>
            (ppc = "returned" \/ p_next = p_start)

\* the window is still open and a frame of the range has been displayed
\* again after the last frame of the range was shown
C3_Witness ==
    /\ ppc = "playing"
    /\ passes >= 1
    /\ p_start < p_stop
    /\ Len(shown) > p_stop - p_start

\* the frame indices the claim expects: start .. stop-1, stop being N when
\* it is not supplied
ExpectedStop == IF p_stopArg = NoStop THEN p_n ELSE p_stopArg[1]
ExpectedFrames == [k \in 1..(ExpectedStop - p_start) |-> p_start + k - 1]

IsPrefix(s, t) == Len(s) <= Len(t) /\ \A k \in 1..Len(s) : s[k] = t[k]

\* C4: the redraw steps display exactly the frames start, start+1, ...,
\* stop-1 in that order (stop = N when not supplied), each step setting the
\* title to 'Frame i+1/N'.
C4_FrameOrder ==
    /\ IsPrefix(shown, ExpectedFrames)
    /\ (ppc = "playing" /\ shown # <<>> /\ passes = 0) =>
            ptitle = <<shown[Len(shown)] + 1, p_n>>
    /\ (ppc = "playing" /\ passes >= 1) => shown = ExpectedFrames

\* C8: when the decoded array is not 3D the reader prints the 'Unexpected
\* dimensionality' message as its last output, summarize_movie is never
\* called (the save directory is as it was, nothing is written, no window
\* is shown) and the script ends normally; summarize_movie runs only for an
\* array of exactly 3 dimensions.
C8_Non3DSkipsSummary ==
    /\ spc # "idle" => r_ndim = 3
    /\ (rpc # "idle" /\ r_ndim # 3) =>
        /\ <<dirState, files>> = r_disk0
        /\ window = NoWindow
        /\ runs = 0
        /\ (r_ret # <<>> => rpc \in {"print_info", "branch", "exit0"})
        /\ (rpc = "exit0" =>
                /\ r_err = None
                /\ r_out # <<>>
                /\ r_out[Len(r_out)] = "unexpected_dimensionality")
    /\ (rpc = "exit0" /\ r_ndim = 3) => spc = "done"

\* a 4D array was decoded and the script has ended normally
C8_Witness ==
    /\ rpc = "exit0"
    /\ r_ndim > 3
    /\ r_out[Len(r_out)] = "unexpected_dimensionality"

\* load_tiff_stack is past its with-block or has failed
LtsOver == rpc \notin {"idle", "start", "asarray", "tags", "with_exit"}

\* C10: when load_tiff_stack returns its triple the handle is closed; when
\* opening or decoding fails the handle, if one was opened, is closed, the
\* error propagates and no triple, partial or whole, is returned.
C10_HandleReleased ==
    /\ LtsOver => r_handle # "open"
    /\ r_ret # <<>> =>
        /\ r_handle = "closed"
        /\ r_locals = {"data", "meta", "desc"}
        /\ r_file = "ok"
    /\ (rpc # "idle" /\ r_file # "ok" /\ LtsOver) =>
        /\ rpc = "exit1"
        /\ r_err # None
        /\ r_ret = <<>>
        /\ (r_file = "missing" => r_handle = "none")
        /\ (r_file # "missing" => r_handle = "closed")

\* decoding failed inside the with-block and the error reached the caller
C10_Witness ==
    /\ r_file = "bad_data"
    /\ rpc = "exit1"
    /\ r_handle = "closed"
    /\ r_err = "DecodeError"

\* the five outputs of a run on a stack of n frames
Outputs(n) == {FrameName(n \div 2), MeanPng, MaxPng, MeanTif, MaxTif}

\* C5: after one run on a stack of at least one frame the directory holds
\* frame_<n_frames // 2, 4 digits>.png, the two projection PNGs and the two
\* projection TIFFs; every later run on the same stack and directory
\* rewrites these five files and adds none, so the listing after it equals
\* the listing after the first run.
C5_SummarizeIdempotent ==
    (spc = "done" /\ n_frames >= 1) =>
        /\ Cardinality(Outputs(n_frames)) = 5
        /\ Outputs(n_frames) \subseteq DOMAIN files
        /\ \A f \in Outputs(n_frames) : files[f] = runs
        /\ DOMAIN files = listing1
        /\ Cardinality(DOMAIN files) = Cardinality(listing1)
        /\ dirState = "dir"

\* a second run that completed in a directory that did not exist before the
\* first one
C5_Witness ==
    /\ spc = "done"
    /\ runs = 2
    /\ DOMAIN files = Outputs(n_frames)
    /\ n_frames >= 2

\* np.round / round(): to the nearest integer, ties to the even one
RoundHalfEven(num, den) ==
    LET q == num \div den
        r == num % den
    IN  IF 2 * r < den THEN q
        ELSE IF 2 * r > den THEN q + 1
        ELSE IF q % 2 = 0 THEN q ELSE q + 1

AbsDiff(a, b) == IF a >= b THEN a - b ELSE b - a

InUnitRange == arr.kind = "f" /\ 0 <= arr.val /\ arr.val <= GridDen

\* C6 as stated: for a float x in [0, 1] the 16-bit integer read back is
\* within 1/65535 of round(x * 65535), and lies in 0..65535.
C6_Original ==
    (tpc = "read" /\ InUnitRange) =>
        /\ Scale16 * AbsDiff(tread[1], RoundHalfEven(arr.val * Scale16, GridDen)) <= 1
        /\ tread[1] \in 0..Scale16

\* C6 amended: for a float x in [0, 1] the 16-bit integer read back is the
\* truncation floor(x * 65535), hence within 1 of round(x * 65535), and
\* lies in 0..65535.
C6_TruncatedWithinOne ==
    (tpc = "read" /\ InUnitRange) =>
        /\ tread[1] * GridDen <= arr.val * Scale16
        /\ arr.val * Scale16 < (tread[1] + 1) * GridDen
        /\ AbsDiff(tread[1], RoundHalfEven(arr.val * Scale16, GridDen)) <= 1
        /\ tread[1] \in 0..Scale16

\* a float strictly inside (0, 1) whose scaled value is rounded up but
\* written truncated, read back
C6_Witness ==
    /\ tpc = "read"
    /\ InUnitRange
    /\ 0 < arr.val /\ arr.val < GridDen
    /\ tread[1] + 1 = RoundHalfEven(arr.val * Scale16, GridDen)

\* C7: an entry point whose input decodes and whose metadata is present
\* ends normally once the user has closed every window; an unhandled error
\* is reached only when a load, decode or metadata step fails.
C7_ExitZeroOnSuccess ==
    /\ v_err # None => v_errStep \in {"load", "decode", "metadata"}
    /\ vpc = "exit1" => v_err # None

\* C9: when the first page lacks XResolution or YResolution, load_tiff
\* fails with an error after the file was opened, the handle is released,
\* no scale is computed and no viewer is created or handed the stack.
MissingResolution ==
    "XResolution" \notin DOMAIN v_tags \/ "YResolution" \notin DOMAIN v_tags

C9_MissingTagsFatal ==
    (vpc # "idle" /\ v_file = "ok" /\ MissingResolution) =>
        /\ v_scale = NoScale
        /\ viewers = 0
        /\ layers = <<>>
        /\ vpc \in {"start", "asarray", "xres", "yres", "exit1"}
        /\ (vpc = "exit1" =>
                /\ v_err = "KeyError"
                /\ v_handle = "closed"
                /\ v_where = "load_tiff")

\* XResolution was read, YResolution is missing and load_tiff has failed
C9_Witness ==
    /\ v_file = "ok"
    /\ "XResolution" \in DOMAIN v_res
    /\ "YResolution" \notin DOMAIN v_tags
    /\ vpc = "exit1"
    /\ v_err = "KeyError"

====
